---- MODULE Spec2Model ----
(***************************************************************************)
(* Model of download_dropbox_files.py: the DropboxDownloader class and the *)
(* __main__ block that drives it.  Strings are sequences of one-character  *)
(* strings; the browser driver, the file system and the operator are the   *)
(* environment, each call to them a nondeterministic outcome.              *)
(***************************************************************************)
EXTENDS Integers, Sequences, FiniteSets, TLC

\* ------------------------------------------------------------------ bounds
MaxLen == 3
MaxKeywords == 2
MaxRows == 2
\* the seconds one time.sleep(1) of the poll loop takes: 1..MaxSleep where
\* verify_download runs on its own, SlowSleep (a loaded machine) in runs of
\* the whole program
MaxSleep == 2
SlowSleep == 15
\* the most rows a search returns where the loop over the rows runs on its own
MaxFound == 7

\* ------------------------------------------------------- program constants
max_attempts == 2
VerifyTimeout == 30
RowLimit == 5
NumClearSelectors == 4
NumSearchSelectors == 5
NumFileSelectors == 5
NumNameSelectors == 10
NumDownloadSelectors == 7

\* ------------------------------------------------------------------ strings
None == <<"None">>

Falsy(x) == x = None \/ x = <<>>

Whitespace == {" ", "\t", "\n"}

Forbidden == {"<", ">", ":", "\"", "/", "\\", "|", "?", "*", ","}

Upper == <<"A","B","C","D","E","F","G","H","I","J","K","L","M",
           "N","O","P","Q","R","S","T","U","V","W","X","Y","Z">>

Lower == <<"a","b","c","d","e","f","g","h","i","j","k","l","m",
           "n","o","p","q","r","s","t","u","v","w","x","y","z">>

LowerChar(c) ==
    IF \E k \in 1..26 : Upper[k] = c
    THEN Lower[CHOOSE k \in 1..26 : Upper[k] = c]
    ELSE c

\* str.lower()
lower(s) == [k \in 1..Len(s) |-> LowerChar(s[k])]

RECURSIVE lstrip(_)
lstrip(s) == IF s # <<>> /\ Head(s) \in Whitespace THEN lstrip(Tail(s)) ELSE s

RECURSIVE rstrip(_)
rstrip(s) ==
    IF s # <<>> /\ s[Len(s)] \in Whitespace
    THEN rstrip(SubSeq(s, 1, Len(s) - 1))
    ELSE s

\* str.strip()
strip(s) == rstrip(lstrip(s))

\* str.endswith(suffix)
endswith(s, suffix) ==
    /\ Len(s) >= Len(suffix)
    /\ SubSeq(s, Len(s) - Len(suffix) + 1, Len(s)) = suffix

\* re_sub with the comma missing from the character class
re_sub_nocomma(s) ==
    [k \in 1..Len(s) |-> IF s[k] \in Forbidden \ {","} THEN "_" ELSE s[k]]

\* re.sub(r'[<>:"/\\|?*,]', '_', s)
re_sub(s) == [k \in 1..Len(s) |-> IF s[k] \in Forbidden THEN "_" ELSE s[k]]

LegacyName ==
    <<"f","i","l","e",","," ","f","1","-","0","0","0","9","4","_",
      "7","6","3","9","9","_","0","0","0","0","0","0","0","0","0","0","_",
      "s","s","r",".","c","w","a">>

TargetName ==
    <<"f","1","-","0","0","0","9","4","_",
      "7","6","3","9","9","_","0","0","0","0","0","0","0","0","0","0","_",
      "s","s","r",".","c","w","a">>

CwaExt == <<".","c","w","a">>

sanitize_filename(filename) ==
    IF Falsy(filename) THEN None
    ELSE IF lower(filename) = LegacyName THEN TargetName
    ELSE strip(re_sub(filename))

\* --------------------------------------------------------- environment
Keywords == {"k1", "k2"}

KeywordLists ==
    UNION {[1..n -> Keywords] : n \in 0..MaxKeywords}

\* texts a result row can show, before .strip().lower()
RawTexts ==
    { <<"a",".","c","w","a">>,
      <<" ","A",".","C","W","A">>,
      <<"n",".","t","x","t">>,
      <<"c","w","a">>,
      <<" ">> }

\* values get_attribute can return
AttrValues == RawTexts \cup {None, <<>>}

\* ------------------------------------------------------------------ state
VARIABLES
    keywords,        \* the list read from the CSV file
    pc,              \* position of the single control flow
    pending,         \* exception propagating to the finally clause of __main__
    driver,          \* self.driver is set
    setup_result,    \* how setup_driver ended: "none", "ok" or "raised"
    login_result,    \* what login_to_dropbox returned: "none", "True" or "False"
    kw,              \* index of the keyword of the for loop of __main__
    keyword,         \* self.keyword
    invoked,         \* keywords search_and_download was called for, in order
    cleanupCalled,   \* the body of cleanup was entered
    quitDone,        \* driver.quit() was executed
    sel,             \* index in the selector list being walked
    gsi_caller,      \* who called get_search_input
    search_input,    \* what get_search_input returned (TRUE: an element)
    csc_result,      \* what the last clear_search_context returned
    files_found,     \* len(files_found)
    i,               \* index of the candidate of the for loop (1-based)
    file_name,       \* file_name of the candidate
    downloaded_count,
    sad_result,      \* what search_and_download returned
    attempt,         \* attempt of attempt_download
    verified,        \* a verify_download of this attempt_download call returned True
    ad_result,       \* what attempt_download returned
    dblclicked,      \* the double click of this attempt was performed
    backed,          \* driver.back() of this attempt was performed
    event,           \* the driver interaction the last step performed
    interrupted,     \* a KeyboardInterrupt was delivered
    san_in, san_out, san_out2, san_pc,
    vd_elapsed,      \* seconds since start_time of the running verify_download
    vd_result,       \* how the running verify_download ended: "none" while it runs
    vd_seen,         \* what the last poll of the running verify_download saw
    sleep_secs,      \* the seconds one turn of a poll loop can take on this machine
    sessions,        \* how many times webdriver.Chrome() has returned a driver
    logins,          \* how many times login_to_dropbox has been called
    box,             \* the text in the search input: the keywords typed since it was cleared
    view,            \* what the browser shows: "results", or the "detail" view of a file
    row_counts,      \* the numbers of rows a find_elements of the row lookup can return
    ad_calls         \* the calls of attempt_download made by the running search_and_download

mainVars == <<keywords, driver, setup_result, login_result, kw, keyword, invoked, cleanupCalled,
              quitDone, sessions, logins>>

sadVars == <<gsi_caller, search_input, csc_result, files_found, i, file_name,
             downloaded_count, sad_result>>

adVars == <<attempt, verified, ad_result, dblclicked, backed>>

sanVars == <<san_in, san_out, san_out2, san_pc>>

vdVars == <<vd_elapsed, vd_result, vd_seen>>

envVars == <<sleep_secs, row_counts>>

pageVars == <<box, view>>

callVars == <<ad_calls>>

vars == <<pc, pending, sel, event, interrupted, mainVars, sadVars, adVars, sanVars, vdVars,
          envVars, pageVars, callVars>>

Init ==
    /\ keywords \in KeywordLists
    /\ pc = "read_csv"
    /\ pending = "none"
    /\ driver = FALSE
    /\ setup_result = "none"
    /\ login_result = "none"
    /\ kw = 0
    /\ keyword = "none"
    /\ invoked = <<>>
    /\ cleanupCalled = FALSE
    /\ quitDone = FALSE
    /\ sessions = 0
    /\ logins = 0
    /\ sel = 1
    /\ gsi_caller = "none"
    /\ search_input = FALSE
    /\ csc_result = "none"
    /\ files_found = 0
    /\ i = 0
    /\ file_name = None
    /\ downloaded_count = -1
    /\ sad_result = "none"
    /\ attempt = 0
    /\ verified = FALSE
    /\ ad_result = "none"
    /\ dblclicked = FALSE
    /\ backed = FALSE
    /\ event = "none"
    /\ interrupted = FALSE
    /\ san_in = None
    /\ san_out = None
    /\ san_out2 = None
    /\ san_pc = "off"
    /\ sleep_secs = {SlowSleep}
    /\ row_counts = 0..MaxRows
    /\ ad_calls = 0
    /\ box = <<>>
    /\ view = "results"
    /\ vd_elapsed = 0
    /\ vd_result = "none"
    /\ vd_seen = "none"

\* one step of the control flow: where it goes, the selector index, the
\* interaction it performed and whether a KeyboardInterrupt was delivered in it
Step(newpc, newsel, ev, kbi) ==
    /\ pc' = newpc
    /\ sel' = newsel
    /\ event' = ev
    /\ interrupted' = (interrupted \/ kbi)
    /\ pending' = pending

\* a KeyboardInterrupt no handler of the class catches: it unwinds to the
\* finally clause of __main__
Propagate(ev) ==
    /\ pc' = "finally"
    /\ sel' = 1
    /\ event' = ev
    /\ interrupted' = TRUE
    /\ pending' = "KeyboardInterrupt"

\* an Exception raised inside the try of __main__
Raise(ev, kbi) ==
    /\ pc' = "finally"
    /\ sel' = 1
    /\ event' = ev
    /\ interrupted' = (interrupted \/ kbi)
    /\ pending' = IF kbi THEN "KeyboardInterrupt" ELSE "Exception"

\* the locals of search_and_download, unbound outside a call
SadLocalsUnbound ==
    /\ gsi_caller' = "none"
    /\ search_input' = FALSE
    /\ csc_result' = "none"
    /\ files_found' = 0
    /\ i' = 0
    /\ file_name' = None
    /\ downloaded_count' = -1
    /\ ad_calls' = 0

\* the locals of attempt_download, unbound outside a call
AdLocalsUnbound ==
    /\ attempt' = 0
    /\ verified' = FALSE
    /\ ad_result' = "none"
    /\ dblclicked' = FALSE
    /\ backed' = FALSE

\* ------------------------------------------------------------- __main__
\* pd.read_csv and the test "if keywords:"
read_csv ==
    /\ pc = "read_csv"
    /\ \E o \in {"ok", "exc", "kbi"} :
         IF o = "ok" /\ keywords # <<>>
         THEN Step("setup_driver", 1, "none", FALSE)
         ELSE Step("exit", 1, "none", o = "kbi")
    /\ UNCHANGED <<mainVars, sadVars, adVars, sanVars, vdVars, envVars, pageVars, callVars>>

\* setup_driver: webdriver.Chrome(...) assigns self.driver, maximize_window
\* follows; every exception is re-raised
setup_driver ==
    /\ pc = "setup_driver"
    /\ \E o \in {"ok", "chrome_exc", "chrome_kbi", "maximize_exc", "maximize_kbi"} :
         /\ driver' = (o \in {"ok", "maximize_exc", "maximize_kbi"})
         /\ setup_result' = IF o = "ok" THEN "ok" ELSE "raised"
         /\ IF o = "ok"
            THEN Step("login", 1, "driver_created", FALSE)
            ELSE Raise(IF driver' THEN "driver_created" ELSE "none",
                       o \in {"chrome_kbi", "maximize_kbi"})
    /\ sessions' = IF driver' THEN sessions + 1 ELSE sessions
    /\ UNCHANGED <<keywords, login_result, kw, keyword, invoked, cleanupCalled, quitDone,
                   logins>>
    /\ UNCHANGED <<sadVars, adVars, sanVars, vdVars, envVars, pageVars, callVars>>

\* login_to_dropbox, and the raise of __main__ when it returns False
login_to_dropbox ==
    /\ pc = "login"
    /\ \E o \in {"ok", "get_exc", "input_exc", "timeout", "kbi"} :
         /\ login_result' = IF o = "ok" THEN "True"
                            ELSE IF o = "kbi" THEN login_result ELSE "False"
         /\ IF o = "ok"
            THEN Step("for_keyword", 1, "login", FALSE)
            ELSE Raise("login", o = "kbi")
    /\ logins' = logins + 1
    /\ UNCHANGED <<keywords, driver, setup_result, kw, keyword, invoked, cleanupCalled,
                   quitDone, sessions>>
    /\ UNCHANGED <<sadVars, adVars, sanVars, vdVars, envVars, pageVars, callVars>>

\* for keyword in keywords: self.keyword = keyword; search_and_download()
for_keyword ==
    /\ pc = "for_keyword"
    /\ IF kw < Len(keywords)
       THEN /\ kw' = kw + 1
            /\ keyword' = keywords[kw + 1]
            /\ invoked' = Append(invoked, keywords[kw + 1])
            /\ Step("csc", 1, "none", FALSE)
       ELSE /\ UNCHANGED <<kw, keyword, invoked>>
            /\ Step("finally", 1, "none", FALSE)
    /\ sad_result' = "none"
    /\ UNCHANGED <<keywords, driver, setup_result, login_result, cleanupCalled, quitDone,
                   sessions, logins>>
    /\ UNCHANGED <<gsi_caller, search_input, csc_result, files_found, i, file_name,
                   downloaded_count>>
    /\ UNCHANGED <<adVars, sanVars, vdVars, envVars, pageVars, callVars>>

\* AfterKeyword leaving the loop when search_and_download returned False
AfterKeyword_break(result) == IF result = "True" THEN "for_keyword" ELSE "finally"

\* AfterKeyword setting up a new session when search_and_download returned False
AfterKeyword_newsession(result) ==
    IF result = "True" THEN "for_keyword" ELSE "setup_driver"

\* where __main__ goes once search_and_download has returned
AfterKeyword(result) == "for_keyword"

\* the logging of the result and time.sleep(DELAY_BETWEEN_SEARCHES)
after_sad ==
    /\ pc = "after_sad"
    /\ \E o \in {"ok", "kbi"} :
         IF o = "ok"
         THEN Step(AfterKeyword(sad_result), 1, "none", FALSE)
         ELSE Propagate("none")
    /\ SadLocalsUnbound
    /\ UNCHANGED <<sad_result, mainVars, adVars, sanVars, vdVars, envVars, pageVars>>

\* whether DropboxDownloader has a method named cleanup: the def of cleanup
\* (line 403) is at module level, after the class, so it has none
HasCleanupMethod == FALSE

\* the finally clause: first_downloader.cleanup()
finally ==
    /\ pc = "finally"
    /\ IF HasCleanupMethod
       THEN \E o \in {"ok", "exc", "kbi"} :
              /\ cleanupCalled' = TRUE
              /\ quitDone' = (quitDone \/ (driver /\ o = "ok"))
              /\ pc' = "exit"
              /\ sel' = 1
              /\ event' = IF driver /\ o = "ok" THEN "quit" ELSE "none"
              /\ interrupted' = (interrupted \/ (driver /\ o = "kbi"))
              /\ pending' = IF driver /\ o = "exc" THEN "Exception"
                            ELSE IF driver /\ o = "kbi" THEN "KeyboardInterrupt"
                            ELSE pending
       ELSE \* AttributeError, caught by the except Exception of line 473
            /\ UNCHANGED <<cleanupCalled, quitDone>>
            /\ pc' = "exit"
            /\ sel' = 1
            /\ event' = "none"
            /\ interrupted' = interrupted
            /\ pending' = "AttributeError"
    /\ UNCHANGED <<keywords, driver, setup_result, login_result, kw, keyword, invoked,
                   sessions, logins>>
    /\ UNCHANGED <<sadVars, adVars, sanVars, vdVars, envVars, pageVars, callVars>>

\* ------------------------------------------------- clear_search_context
\* one turn of the loop over clear_selectors: find_element, click, sleep(1),
\* return True; the bare except sends every exception to the next selector
clear_search_context ==
    /\ pc = "csc"
    /\ \E o \in {"ok", "exc", "kbi", "kbi_sleep"} :
         LET ev == IF o \in {"ok", "kbi_sleep"} THEN "clear_click" ELSE "none" IN
         IF o = "ok"
         THEN /\ csc_result' = "True"
              /\ gsi_caller' = "sad"
              /\ Step("gsi", 1, ev, FALSE)
         ELSE /\ csc_result' = csc_result
              /\ gsi_caller' = IF sel < NumClearSelectors THEN gsi_caller ELSE "csc"
              /\ IF sel < NumClearSelectors
                 THEN Step("csc", sel + 1, ev, o \in {"kbi", "kbi_sleep"})
                 ELSE Step("gsi", 1, ev, o \in {"kbi", "kbi_sleep"})
    /\ box' = IF event' = "clear_click" THEN <<>> ELSE box
    /\ view' = view
    /\ UNCHANGED <<search_input, files_found, i, file_name, downloaded_count, sad_result>>
    /\ UNCHANGED <<mainVars, adVars, sanVars, vdVars, envVars, callVars>>

\* get_search_input keeping the match and probing the selectors that are left
get_search_input_all ==
    /\ pc = "gsi"
    /\ \E o \in {"ok", "exc", "kbi"} :
         LET ret == IF gsi_caller = "csc" THEN "csc_fallback" ELSE "sad_type" IN
         IF sel < NumSearchSelectors
         THEN /\ search_input' = (search_input \/ o = "ok")
              /\ Step("gsi", sel + 1, "none", o = "kbi")
         ELSE /\ search_input' = (search_input \/ o = "ok")
              /\ Step(ret, 1, "none", o = "kbi")
    /\ UNCHANGED <<gsi_caller, csc_result, files_found, i, file_name, downloaded_count,
                   sad_result>>
    /\ UNCHANGED <<mainVars, adVars, sanVars, vdVars, envVars, pageVars, callVars>>

\* one turn of the loop of get_search_input: wait.until(element_to_be_clickable);
\* the bare except sends every exception to the next selector; None at the end
get_search_input ==
    /\ pc = "gsi"
    /\ \E o \in {"ok", "exc", "kbi"} :
         LET ret == IF gsi_caller = "csc" THEN "csc_fallback" ELSE "sad_type" IN
         IF o = "ok"
         THEN /\ search_input' = TRUE
              /\ Step(ret, 1, "none", FALSE)
         ELSE IF sel < NumSearchSelectors
         THEN /\ search_input' = search_input
              /\ Step("gsi", sel + 1, "none", o = "kbi")
         ELSE /\ search_input' = FALSE
              /\ Step(ret, 1, "none", o = "kbi")
    /\ UNCHANGED <<gsi_caller, csc_result, files_found, i, file_name, downloaded_count,
                   sad_result>>
    /\ UNCHANGED <<mainVars, adVars, sanVars, vdVars, envVars, pageVars, callVars>>

\* the fallback of clear_search_context: search_input.clear(), send_keys(ESCAPE),
\* sleep(1), return True; except Exception: return False, be it clear() that
\* raised ("exc") or send_keys after the text was cleared ("esc_exc"); then the
\* call of get_search_input by search_and_download, which ignores the result
csc_fallback ==
    /\ pc = "csc_fallback"
    /\ \E o \in {"ok", "exc", "esc_exc", "kbi"} :
         IF search_input /\ o = "kbi"
         THEN /\ Propagate("none")
              /\ UNCHANGED <<csc_result, gsi_caller, search_input>>
         ELSE /\ csc_result' = IF search_input /\ o = "ok" THEN "True" ELSE "False"
              /\ gsi_caller' = "sad"
              /\ search_input' = FALSE
              /\ Step("gsi", 1,
                      IF search_input /\ o \in {"ok", "esc_exc"} THEN "clear_input"
                      ELSE "none", FALSE)
    /\ box' = IF event' = "clear_input" THEN <<>> ELSE box
    /\ view' = view
    /\ UNCHANGED <<files_found, i, file_name, downloaded_count, sad_result>>
    /\ UNCHANGED <<mainVars, adVars, sanVars, vdVars, envVars, callVars>>

\* ---------------------------------------------------- search_and_download
\* if not search_input: return False; search_input.send_keys(self.keyword)
sad_type ==
    /\ pc = "sad_type"
    /\ \E o \in {"ok", "exc", "kbi"} :
         IF ~search_input \/ o = "exc"
         THEN /\ sad_result' = "False"
              /\ Step("after_sad", 1, "none", FALSE)
         ELSE IF o = "ok"
         THEN /\ sad_result' = sad_result
              /\ Step("sad_submit", 1, "type_keyword", FALSE)
         ELSE /\ sad_result' = sad_result
              /\ Propagate("none")
    /\ box' = IF event' = "type_keyword" THEN Append(box, keyword) ELSE box
    /\ view' = view
    /\ UNCHANGED <<gsi_caller, search_input, csc_result, files_found, i, file_name,
                   downloaded_count>>
    /\ UNCHANGED <<mainVars, adVars, sanVars, vdVars, envVars, callVars>>

\* search_input.send_keys(Keys.RETURN)
sad_submit ==
    /\ pc = "sad_submit"
    /\ \E o \in {"ok", "exc", "kbi"} :
         IF o = "ok"
         THEN /\ sad_result' = sad_result
              /\ Step("sad_settle", 1, "search_submit", FALSE)
         ELSE IF o = "exc"
         THEN /\ sad_result' = "False"
              /\ Step("after_sad", 1, "none", FALSE)
         ELSE /\ sad_result' = sad_result
              /\ Propagate("none")
    /\ view' = IF event' = "search_submit" THEN "results" ELSE view
    /\ box' = box
    /\ UNCHANGED <<gsi_caller, search_input, csc_result, files_found, i, file_name,
                   downloaded_count>>
    /\ UNCHANGED <<mainVars, adVars, sanVars, vdVars, envVars, callVars>>

\* time.sleep(5); the result of clear_search_context, bound to no name, is gone
sad_settle ==
    /\ pc = "sad_settle"
    /\ \E o \in {"ok", "kbi"} :
         IF o = "ok" THEN Step("rows", 1, "none", FALSE) ELSE Propagate("none")
    /\ csc_result' = "none"
    /\ UNCHANGED <<gsi_caller, search_input, files_found, i, file_name, downloaded_count,
                   sad_result>>
    /\ UNCHANGED <<mainVars, adVars, sanVars, vdVars, envVars, pageVars, callVars>>

\* one turn of the loop over file_selectors: find_elements; a non-empty list
\* ends the loop; if not files_found: return True; downloaded_count = 0
sad_rows ==
    /\ pc = "rows"
    /\ \E o \in {"ok", "exc", "kbi"}, n \in row_counts :
         /\ o # "ok" => n = 0
         /\ IF n > 0
            THEN /\ files_found' = n
                 /\ i' = 0
                 /\ downloaded_count' = 0
                 /\ sad_result' = sad_result
                 /\ Step("for_file", 1, "none", FALSE)
            ELSE /\ files_found' = 0
                 /\ UNCHANGED <<i, downloaded_count>>
                 /\ IF sel < NumFileSelectors
                    THEN /\ sad_result' = sad_result
                         /\ Step("rows", sel + 1, "none", o = "kbi")
                    ELSE /\ sad_result' = "True"
                         /\ Step("after_sad", 1, "none", o = "kbi")
    /\ UNCHANGED <<gsi_caller, search_input, csc_result, file_name>>
    /\ UNCHANGED <<mainVars, adVars, sanVars, vdVars, envVars, pageVars, callVars>>

Min(a, b) == IF a < b THEN a ELSE b

\* for_file over all of files_found, without the slice [:5]
for_file_all ==
    /\ pc = "for_file"
    /\ IF i < files_found
       THEN /\ i' = i + 1
            /\ file_name' = None
            /\ sad_result' = sad_result
            /\ Step("name", 1, "none", FALSE)
       ELSE /\ UNCHANGED <<i, file_name>>
            /\ sad_result' = "True"
            /\ Step("after_sad", 1, "none", FALSE)
    /\ UNCHANGED <<gsi_caller, search_input, csc_result, files_found, downloaded_count>>
    /\ UNCHANGED <<mainVars, adVars, sanVars, vdVars, envVars, pageVars, callVars>>

\* for i, file_element in enumerate(files_found[:5]); after it, return True
for_file ==
    /\ pc = "for_file"
    /\ IF i < Min(files_found, RowLimit)
       THEN /\ i' = i + 1
            /\ file_name' = None
            /\ sad_result' = sad_result
            /\ Step("name", 1, "none", FALSE)
       ELSE /\ UNCHANGED <<i, file_name>>
            /\ sad_result' = "True"
            /\ Step("after_sad", 1, "none", FALSE)
    /\ UNCHANGED <<gsi_caller, search_input, csc_result, files_found, downloaded_count>>
    /\ UNCHANGED <<mainVars, adVars, sanVars, vdVars, envVars, pageVars, callVars>>

\* one turn of the loop over name_selectors: find_element, .text.strip().lower(),
\* break; the bare except sends every exception to the next selector
sad_name ==
    /\ pc = "name"
    /\ \E o \in {"ok", "exc", "kbi"}, text \in RawTexts :
         IF o = "ok"
         THEN /\ file_name' = lower(strip(text))
              /\ Step(IF Falsy(file_name') THEN "attr" ELSE "check_name", 1, "none", FALSE)
         ELSE /\ file_name' = file_name
              /\ IF sel < NumNameSelectors
                 THEN Step("name", sel + 1, "none", o = "kbi")
                 ELSE Step("attr", 1, "none", o = "kbi")
    /\ UNCHANGED <<gsi_caller, search_input, csc_result, files_found, i, downloaded_count,
                   sad_result>>
    /\ UNCHANGED <<mainVars, adVars, sanVars, vdVars, envVars, pageVars, callVars>>

NumAttrs == 4

\* one turn of the loop over the fallback attributes: get_attribute(attr); a
\* non-empty value is stripped, lowered and ends the loop; the bare except
\* around the loop ends it on any exception
sad_attr ==
    /\ pc = "attr"
    /\ \E o \in {"ok", "exc", "kbi"}, v \in AttrValues :
         IF o = "ok"
         THEN IF ~Falsy(v)
              THEN /\ file_name' = lower(strip(v))
                   /\ Step("check_name", 1, "none", FALSE)
              ELSE /\ file_name' = v
                   /\ IF sel < NumAttrs
                      THEN Step("attr", sel + 1, "none", FALSE)
                      ELSE Step("check_name", 1, "none", FALSE)
         ELSE /\ file_name' = file_name
              /\ Step("check_name", 1, "none", o = "kbi")
    /\ UNCHANGED <<gsi_caller, search_input, csc_result, files_found, i, downloaded_count,
                   sad_result>>
    /\ UNCHANGED <<mainVars, adVars, sanVars, vdVars, envVars, pageVars, callVars>>

\* is_cwa with the dot missing from the suffix
is_cwa_nodot(name) == endswith(name, <<"c","w","a">>)

\* file_name.endswith('.cwa')
is_cwa(name) == endswith(name, CwaExt)

\* check_name without the test "if not file_name": an unnamed candidate is
\* handed to attempt_download
check_name_unnamed ==
    /\ pc = "check_name"
    /\ IF ~Falsy(file_name) /\ ~is_cwa(file_name)
       THEN /\ Step("for_file", 1, "none", FALSE)
            /\ UNCHANGED adVars
       ELSE /\ attempt' = 1
            /\ verified' = FALSE
            /\ ad_result' = "none"
            /\ dblclicked' = FALSE
            /\ backed' = FALSE
            /\ Step("ad_context", 1, "none", FALSE)
    /\ UNCHANGED <<mainVars, sadVars, sanVars, vdVars, envVars, pageVars, callVars>>

\* if not file_name: (outerHTML for the log) continue;
\* if not file_name.endswith('.cwa'): continue; else attempt_download(...)
check_name ==
    /\ pc = "check_name"
    /\ IF Falsy(file_name)
       THEN /\ \E o \in {"ok", "exc", "kbi"} : Step("for_file", 1, "none", o = "kbi")
            /\ UNCHANGED adVars
       ELSE IF ~is_cwa(file_name)
       THEN /\ Step("for_file", 1, "none", FALSE)
            /\ UNCHANGED adVars
       ELSE /\ attempt' = 1
            /\ verified' = FALSE
            /\ ad_result' = "none"
            /\ dblclicked' = FALSE
            /\ backed' = FALSE
            /\ Step("ad_context", 1, "none", FALSE)
    /\ ad_calls' = IF pc' = "ad_context" THEN ad_calls + 1 ELSE ad_calls
    /\ UNCHANGED <<mainVars, sadVars, sanVars, vdVars, envVars, pageVars>>

\* if self.attempt_download(...): downloaded_count += 1
ad_return ==
    /\ pc = "ad_return"
    /\ downloaded_count' = IF ad_result = "True" THEN downloaded_count + 1
                           ELSE downloaded_count
    /\ Step("for_file", 1, "none", FALSE)
    /\ AdLocalsUnbound
    /\ UNCHANGED <<gsi_caller, search_input, csc_result, files_found, i, file_name,
                   sad_result>>
    /\ UNCHANGED <<mainVars, sanVars, vdVars, envVars, pageVars, callVars>>

\* ------------------------------------------------------- verify_download
\* the decision of verify_download at one poll; found: os.path.exists(expected_path)
verify_download(filename, found) ==
    IF Falsy(sanitize_filename(filename)) THEN FALSE ELSE found

\* PollSees with the partial-download marker counting as the file
PollSees_marker(seen) == seen \in {"present", "partial"}

\* os.path.exists(expected_path), given what the download folder holds: the
\* file, only its .crdownload marker, or neither
PollSees(seen) == seen = "present"

\* the locals of verify_download, unbound outside a call
VdLocalsUnbound ==
    /\ vd_elapsed' = 0
    /\ vd_result' = "none"
    /\ vd_seen' = "none"

\* one turn of the poll loop of verify_download, called by Strategy A or B:
\* if not sanitized_filename: return False; while time.time() - start_time <
\* timeout: the file exists: return True; time.sleep(1), which takes one of
\* sleep_secs seconds, at least one; after the loop: return False
verify_poll ==
    /\ pc \in {"ad_verify", "adb_verify"}
    /\ vd_result = "none"
    /\ IF Falsy(sanitize_filename(file_name)) \/ vd_elapsed >= VerifyTimeout
       THEN /\ vd_result' = "False"
            /\ UNCHANGED <<vd_elapsed, vd_seen>>
            /\ Step(pc, sel, "none", FALSE)
       ELSE \E seen \in {"absent", "partial", "present"}, o \in {"ok", "kbi"},
               d \in sleep_secs :
              IF verify_download(file_name, PollSees(seen))
              THEN /\ vd_result' = "True"
                   /\ vd_seen' = seen
                   /\ vd_elapsed' = vd_elapsed
                   /\ Step(pc, sel, "none", FALSE)
              ELSE IF o = "ok"
              THEN /\ vd_elapsed' = vd_elapsed + d
                   /\ vd_seen' = seen
                   /\ vd_result' = vd_result
                   /\ Step(pc, sel, "none", FALSE)
              ELSE /\ vd_result' = "kbi"
                   /\ vd_seen' = seen
                   /\ vd_elapsed' = vd_elapsed
                   /\ Step(pc, sel, "none", TRUE)
    /\ UNCHANGED <<mainVars, sadVars, adVars, sanVars, envVars, pageVars, callVars>>

\* ------------------------------------------------------ attempt_download
\* ad_context with no except Exception around the attempt: the Exception of the
\* context click reaches the handler of the loop over the rows
ad_context_uncaught ==
    /\ pc = "ad_context"
    /\ \E o \in {"ok", "exc", "kbi", "kbi_sleep"} :
         CASE o = "ok" -> Step("ad_sel", 1, "context_click", FALSE)
           [] o = "exc" -> Step("for_file", 1, "none", FALSE)
           [] o = "kbi" -> Propagate("none")
           [] o = "kbi_sleep" -> Propagate("context_click")
    /\ dblclicked' = FALSE
    /\ backed' = FALSE
    /\ UNCHANGED <<attempt, verified, ad_result>>
    /\ UNCHANGED <<mainVars, sadVars, sanVars, vdVars, envVars, pageVars, callVars>>

\* context_click(file_element).perform(); time.sleep(1); an Exception goes to
\* the except Exception of the attempt, a KeyboardInterrupt leaves the method
ad_context ==
    /\ pc = "ad_context"
    /\ \E o \in {"ok", "exc", "kbi", "kbi_sleep"} :
         CASE o = "ok" -> Step("ad_sel", 1, "context_click", FALSE)
           [] o = "exc" -> Step("ad_close", 1, "none", FALSE)
           [] o = "kbi" -> Propagate("none")
           [] o = "kbi_sleep" -> Propagate("context_click")
    /\ dblclicked' = FALSE
    /\ backed' = FALSE
    /\ UNCHANGED <<attempt, verified, ad_result>>
    /\ UNCHANGED <<mainVars, sadVars, sanVars, vdVars, envVars, pageVars, callVars>>

\* the continue of the loop over download_selectors, and the fall through to
\* the double click after the last selector
NextSelector(ev, kbi) ==
    IF sel < NumDownloadSelectors
    THEN Step("ad_sel", sel + 1, ev, kbi)
    ELSE Step("ad_dbl", 1, ev, kbi)

\* Strategy A, find_element of one download selector
ad_find ==
    /\ pc = "ad_sel"
    /\ \E o \in {"ok", "exc", "kbi"} :
         IF o = "ok" THEN Step("ad_click", sel, "none", FALSE)
         ELSE NextSelector("none", o = "kbi")
    /\ UNCHANGED <<mainVars, sadVars, adVars, sanVars, vdVars, envVars, pageVars, callVars>>

\* download_option.click(); its bare except leads to execute_script
ad_click ==
    /\ pc = "ad_click"
    /\ \E o \in {"ok", "exc", "kbi"} :
         IF o = "ok" THEN Step("ad_verify", sel, "trigger_click", FALSE)
         ELSE Step("ad_js", sel, "none", o = "kbi")
    /\ UNCHANGED <<mainVars, sadVars, adVars, sanVars, vdVars, envVars, pageVars, callVars>>

\* self.driver.execute_script("arguments[0].click();", download_option)
ad_js ==
    /\ pc = "ad_js"
    /\ \E o \in {"ok", "exc", "kbi"} :
         IF o = "ok" THEN Step("ad_verify", sel, "trigger_click", FALSE)
         ELSE NextSelector("none", o = "kbi")
    /\ UNCHANGED <<mainVars, sadVars, adVars, sanVars, vdVars, envVars, pageVars, callVars>>

\* if self.verify_download(file_name): return True; else the loop goes on;
\* the bare except of the loop swallows a KeyboardInterrupt of the poll
ad_verify ==
    /\ pc = "ad_verify"
    /\ vd_result # "none"
    /\ IF vd_result = "True"
       THEN /\ verified' = TRUE
            /\ ad_result' = "True"
            /\ Step("ad_return", 1, "none", FALSE)
       ELSE /\ UNCHANGED <<verified, ad_result>>
            /\ NextSelector("none", FALSE)
    /\ VdLocalsUnbound
    /\ UNCHANGED <<attempt, dblclicked, backed>>
    /\ UNCHANGED <<mainVars, sadVars, sanVars, envVars, pageVars, callVars>>

\* Strategy B: double_click(file_element).perform(); time.sleep(2); every
\* exception of Strategy B goes to its bare except
adb_double_click ==
    /\ pc = "ad_dbl"
    /\ \E o \in {"ok", "exc", "kbi", "kbi_sleep"} :
         /\ dblclicked' = (o \in {"ok", "kbi_sleep"})
         /\ CASE o = "ok" -> Step("adb_find", 1, "double_click", FALSE)
              [] o = "exc" -> Step("ad_close", 1, "none", FALSE)
              [] o = "kbi" -> Step("ad_close", 1, "none", TRUE)
              [] o = "kbi_sleep" -> Step("ad_close", 1, "double_click", TRUE)
    /\ view' = IF event' = "double_click" THEN "detail" ELSE view
    /\ box' = box
    /\ UNCHANGED <<attempt, verified, ad_result, backed>>
    /\ UNCHANGED <<mainVars, sadVars, sanVars, vdVars, envVars, callVars>>

\* download_btn = self.driver.find_element(By.XPATH, ...)
adb_find ==
    /\ pc = "adb_find"
    /\ \E o \in {"ok", "exc", "kbi"} :
         IF o = "ok" THEN Step("adb_click", 1, "none", FALSE)
         ELSE Step("ad_close", 1, "none", o = "kbi")
    /\ UNCHANGED <<mainVars, sadVars, adVars, sanVars, vdVars, envVars, pageVars, callVars>>

\* download_btn.click(); its bare except leads to execute_script
adb_click ==
    /\ pc = "adb_click"
    /\ \E o \in {"ok", "exc", "kbi"} :
         IF o = "ok" THEN Step("adb_verify", 1, "trigger_click", FALSE)
         ELSE Step("adb_js", 1, "none", o = "kbi")
    /\ UNCHANGED <<mainVars, sadVars, adVars, sanVars, vdVars, envVars, pageVars, callVars>>

\* self.driver.execute_script("arguments[0].click();", download_btn)
adb_js ==
    /\ pc = "adb_js"
    /\ \E o \in {"ok", "exc", "kbi"} :
         IF o = "ok" THEN Step("adb_verify", 1, "trigger_click", FALSE)
         ELSE Step("ad_close", 1, "none", o = "kbi")
    /\ UNCHANGED <<mainVars, sadVars, adVars, sanVars, vdVars, envVars, pageVars, callVars>>

\* adb_verify going on to the return of True whatever verify_download returned
adb_verify_unchecked ==
    /\ pc = "adb_verify"
    /\ vd_result # "none"
    /\ IF vd_result = "kbi"
       THEN /\ verified' = verified
            /\ Step("ad_close", 1, "none", FALSE)
       ELSE /\ verified' = (vd_result = "True")
            /\ Step("adb_back_ok", 1, "none", FALSE)
    /\ VdLocalsUnbound
    /\ UNCHANGED <<attempt, ad_result, dblclicked, backed>>
    /\ UNCHANGED <<mainVars, sadVars, sanVars, envVars, pageVars, callVars>>

\* if self.verify_download(file_name): ... else: warning
adb_verify ==
    /\ pc = "adb_verify"
    /\ vd_result # "none"
    /\ IF vd_result = "kbi"
       THEN /\ verified' = verified
            /\ Step("ad_close", 1, "none", FALSE)
       ELSE IF vd_result = "True"
       THEN /\ verified' = TRUE
            /\ Step("adb_back_ok", 1, "none", FALSE)
       ELSE /\ verified' = verified
            /\ Step("adb_back_fail", 1, "none", FALSE)
    /\ VdLocalsUnbound
    /\ UNCHANGED <<attempt, ad_result, dblclicked, backed>>
    /\ UNCHANGED <<mainVars, sadVars, sanVars, envVars, pageVars, callVars>>

\* after a verified download: self.driver.back(); time.sleep(2); return True,
\* all of it inside the try of Strategy B
adb_back_ok ==
    /\ pc = "adb_back_ok"
    /\ \E o \in {"ok", "exc", "kbi", "kbi_sleep"} :
         /\ backed' = (o \in {"ok", "kbi_sleep"})
         /\ IF o = "ok"
            THEN /\ ad_result' = "True"
                 /\ Step("ad_return", 1, "back", FALSE)
            ELSE /\ ad_result' = ad_result
                 /\ Step("ad_close", 1, IF o = "kbi_sleep" THEN "back" ELSE "none",
                         o \in {"kbi", "kbi_sleep"})
    /\ view' = IF event' = "back" THEN "results" ELSE view
    /\ box' = box
    /\ UNCHANGED <<attempt, verified, dblclicked>>
    /\ UNCHANGED <<mainVars, sadVars, sanVars, vdVars, envVars, callVars>>

\* after a failed verification: self.driver.back(); time.sleep(2)
adb_back_fail ==
    /\ pc = "adb_back_fail"
    /\ \E o \in {"ok", "exc", "kbi", "kbi_sleep"} :
         /\ backed' = (o \in {"ok", "kbi_sleep"})
         /\ Step("ad_close", 1, IF o \in {"ok", "kbi_sleep"} THEN "back" ELSE "none",
                 o \in {"kbi", "kbi_sleep"})
    /\ view' = IF event' = "back" THEN "results" ELSE view
    /\ box' = box
    /\ UNCHANGED <<attempt, verified, ad_result, dblclicked>>
    /\ UNCHANGED <<mainVars, sadVars, sanVars, vdVars, envVars, callVars>>

\* close any context menus: find_element(By.TAG_NAME, "body").click();
\* time.sleep(1); except: pass
ad_close ==
    /\ pc = "ad_close"
    /\ \E o \in {"ok", "exc", "kbi", "kbi_sleep"} :
         Step("ad_retry", 1, IF o \in {"ok", "kbi_sleep"} THEN "body_click" ELSE "none",
              o \in {"kbi", "kbi_sleep"})
    /\ UNCHANGED <<mainVars, sadVars, adVars, sanVars, vdVars, envVars, pageVars, callVars>>

\* ad_retry starting the next attempt without counting it
ad_retry_uncounted ==
    /\ pc = "ad_retry"
    /\ \E o \in {"ok", "kbi"} :
         IF o = "ok"
         THEN /\ UNCHANGED <<attempt, ad_result>>
              /\ Step("ad_context", 1, "none", FALSE)
         ELSE /\ UNCHANGED <<attempt, ad_result>>
              /\ Propagate("none")
    /\ UNCHANGED <<verified, dblclicked, backed>>
    /\ UNCHANGED <<mainVars, sadVars, sanVars, vdVars, envVars, pageVars, callVars>>

\* if attempt < max_attempts: time.sleep(2) and the next attempt; after the
\* last attempt: return False
ad_retry ==
    /\ pc = "ad_retry"
    /\ IF attempt < max_attempts
       THEN \E o \in {"ok", "kbi"} :
              IF o = "ok"
              THEN /\ attempt' = attempt + 1
                   /\ ad_result' = ad_result
                   /\ Step("ad_context", 1, "none", FALSE)
              ELSE /\ UNCHANGED <<attempt, ad_result>>
                   /\ Propagate("none")
       ELSE /\ attempt' = attempt
            /\ ad_result' = "False"
            /\ Step("ad_return", 1, "none", FALSE)
    /\ UNCHANGED <<verified, dblclicked, backed>>
    /\ UNCHANGED <<mainVars, sadVars, sanVars, vdVars, envVars, pageVars, callVars>>

\* ------------------------------------------------------ the whole program
Next ==
    \/ read_csv
    \/ setup_driver
    \/ login_to_dropbox
    \/ for_keyword
    \/ after_sad
    \/ finally
    \/ clear_search_context
    \/ get_search_input
    \/ csc_fallback
    \/ sad_type
    \/ sad_submit
    \/ sad_settle
    \/ sad_rows
    \/ for_file
    \/ sad_name
    \/ sad_attr
    \/ check_name
    \/ ad_return
    \/ ad_context
    \/ ad_find
    \/ ad_click
    \/ ad_js
    \/ verify_poll
    \/ ad_verify
    \/ adb_double_click
    \/ adb_find
    \/ adb_click
    \/ adb_js
    \/ adb_verify
    \/ adb_back_ok
    \/ adb_back_fail
    \/ ad_close
    \/ ad_retry

Spec == Init /\ [][Next]_vars

\* ------------------------------------------- sanitize_filename on its own
SanChars == {"a", "B", ",", "/", " ", "\t", "_"}

upper_legacy ==
    <<"F","I","L","E",","," ","F","1","-","0","0","0","9","4","_",
      "7","6","3","9","9","_","0","0","0","0","0","0","0","0","0","0","_",
      "S","S","R",".","C","W","A">>

\* the strings sanitize_filename is applied to: every string of at most MaxLen
\* characters, the legacy name in lower, upper and mixed case, the legacy name
\* between blanks, and the fixed target
SanInputs ==
    UNION {[1..n -> SanChars] : n \in 0..MaxLen}
    \cup { LegacyName, upper_legacy,
           [k \in 1..Len(LegacyName) |-> IF k % 2 = 0 THEN upper_legacy[k] ELSE LegacyName[k]],
           <<" ">> \o LegacyName \o <<" ">>,
           TargetName }

SanInit ==
    /\ keywords = <<>>
    /\ pc = "san"
    /\ pending = "none"
    /\ driver = FALSE
    /\ setup_result = "none"
    /\ login_result = "none"
    /\ kw = 0
    /\ keyword = "none"
    /\ invoked = <<>>
    /\ cleanupCalled = FALSE
    /\ quitDone = FALSE
    /\ sessions = 0
    /\ logins = 0
    /\ sel = 1
    /\ gsi_caller = "none"
    /\ search_input = FALSE
    /\ csc_result = "none"
    /\ files_found = 0
    /\ i = 0
    /\ file_name = None
    /\ downloaded_count = -1
    /\ sad_result = "none"
    /\ attempt = 0
    /\ verified = FALSE
    /\ ad_result = "none"
    /\ dblclicked = FALSE
    /\ backed = FALSE
    /\ event = "none"
    /\ interrupted = FALSE
    /\ san_in \in SanInputs
    /\ san_out = None
    /\ san_out2 = None
    /\ san_pc = "start"
    /\ sleep_secs = {SlowSleep}
    /\ row_counts = 0..MaxRows
    /\ ad_calls = 0
    /\ box = <<>>
    /\ view = "results"
    /\ vd_elapsed = 0
    /\ vd_result = "none"
    /\ vd_seen = "none"

\* san_out = sanitize_filename(san_in)
sanitize_once ==
    /\ san_pc = "start"
    /\ san_out' = sanitize_filename(san_in)
    /\ san_pc' = "once"
    /\ UNCHANGED <<san_in, san_out2>>
    /\ UNCHANGED <<pc, pending, sel, event, interrupted, mainVars, sadVars, adVars, vdVars,
                 envVars, pageVars, callVars>>

\* san_out2 = sanitize_filename(san_out)
sanitize_twice ==
    /\ san_pc = "once"
    /\ san_out2' = sanitize_filename(san_out)
    /\ san_pc' = "twice"
    /\ UNCHANGED <<san_in, san_out>>
    /\ UNCHANGED <<pc, pending, sel, event, interrupted, mainVars, sadVars, adVars, vdVars,
                 envVars, pageVars, callVars>>

SanNext == sanitize_once \/ sanitize_twice

SanSpec == SanInit /\ [][SanNext]_vars

\* --------------------------------------------- verify_download on its own
\* verify_download(filename) called by Strategy A (at "ad_verify") or by
\* Strategy B (at "adb_verify") on any text, every sleep taking 1..MaxSleep
\* seconds; the run ends where the caller goes on
VdInit ==
    /\ keywords = <<"k1">>
    /\ pc \in {"ad_verify", "adb_verify"}
    /\ pending = "none"
    /\ driver = TRUE
    /\ setup_result = "ok"
    /\ login_result = "True"
    /\ kw = 1
    /\ keyword = "k1"
    /\ invoked = <<"k1">>
    /\ cleanupCalled = FALSE
    /\ quitDone = FALSE
    /\ sessions = 1
    /\ logins = 1
    /\ sel \in IF pc = "ad_verify" THEN 1..NumDownloadSelectors ELSE {1}
    /\ gsi_caller = "none"
    /\ search_input = TRUE
    /\ csc_result = "none"
    /\ files_found = 1
    /\ i = 1
    /\ file_name \in RawTexts
    /\ downloaded_count = 0
    /\ sad_result = "none"
    /\ attempt = 1
    /\ verified = FALSE
    /\ ad_result = "none"
    /\ dblclicked = (pc = "adb_verify")
    /\ backed = FALSE
    /\ event = "trigger_click"
    /\ interrupted = FALSE
    /\ san_in = None
    /\ san_out = None
    /\ san_out2 = None
    /\ san_pc = "off"
    /\ sleep_secs = 1..MaxSleep
    /\ row_counts = 0..MaxRows
    /\ ad_calls = 1
    /\ box = <<"k1">>
    /\ view = "results"
    /\ vd_elapsed = 0
    /\ vd_result = "none"
    /\ vd_seen = "none"

VdNext == verify_poll \/ ad_verify \/ adb_verify

VdSpec == VdInit /\ [][VdNext]_vars

\* ------------------------------------- the loop over the rows on its own
\* search_and_download from the lookup of the rows on, for one keyword whose
\* search has been submitted and has settled; the search returns up to
\* MaxFound rows; the run ends where search_and_download returns
RowInit ==
    /\ keywords = <<"k1">>
    /\ pc = "rows"
    /\ pending = "none"
    /\ driver = TRUE
    /\ setup_result = "ok"
    /\ login_result = "True"
    /\ kw = 1
    /\ keyword = "k1"
    /\ invoked = <<"k1">>
    /\ cleanupCalled = FALSE
    /\ quitDone = FALSE
    /\ sessions = 1
    /\ logins = 1
    /\ sel = 1
    /\ gsi_caller = "sad"
    /\ search_input = TRUE
    /\ csc_result = "none"
    /\ files_found = 0
    /\ i = 0
    /\ file_name = None
    /\ downloaded_count = -1
    /\ sad_result = "none"
    /\ attempt = 0
    /\ verified = FALSE
    /\ ad_result = "none"
    /\ dblclicked = FALSE
    /\ backed = FALSE
    /\ event = "none"
    /\ interrupted = FALSE
    /\ san_in = None
    /\ san_out = None
    /\ san_out2 = None
    /\ san_pc = "off"
    /\ sleep_secs = {SlowSleep}
    /\ row_counts = 0..MaxFound
    /\ ad_calls = 0
    /\ box = <<"k1">>
    /\ view = "results"
    /\ vd_elapsed = 0
    /\ vd_result = "none"
    /\ vd_seen = "none"

RowNext ==
    \/ sad_rows
    \/ for_file
    \/ sad_name
    \/ sad_attr
    \/ check_name
    \/ ad_return
    \/ ad_context
    \/ ad_find
    \/ ad_click
    \/ ad_js
    \/ verify_poll
    \/ ad_verify
    \/ adb_double_click
    \/ adb_find
    \/ adb_click
    \/ adb_js
    \/ adb_verify
    \/ adb_back_ok
    \/ adb_back_fail
    \/ ad_close
    \/ ad_retry

RowSpec == RowInit /\ [][RowNext]_vars

\* ============================================================ properties
Interactions == {"context_click", "double_click", "trigger_click"}

InAttemptDownload ==
    pc \in {"ad_context", "ad_sel", "ad_click", "ad_js", "ad_verify", "ad_dbl",
            "adb_find", "adb_click", "adb_js", "adb_verify", "adb_back_ok",
            "adb_back_fail", "ad_close", "ad_retry"}

\* C1 (as claimed): attempt_download makes at most max_attempts attempts; once a
\* verification has succeeded nothing follows but the return of True (in
\* Strategy B, the navigation back and the return); and it returns False only
\* after the last attempt, with no verification having succeeded.
C1_Original ==
    /\ attempt <= max_attempts
    /\ (InAttemptDownload /\ verified) => pc = "adb_back_ok"
    /\ pc = "ad_return" =>
         /\ verified => ad_result = "True"
         /\ ad_result = "False" => attempt = max_attempts

\* C2 (as claimed): a run in which the driver was initialized ends with
\* driver.quit() executed.
C2_Original == (pc = "exit" /\ driver) => quitDone

NameEndsInCwa ==
    /\ file_name # None
    /\ Len(file_name) >= 4
    /\ file_name[Len(file_name) - 3] = "."
    /\ file_name[Len(file_name) - 2] = "c"
    /\ file_name[Len(file_name) - 1] = "w"
    /\ file_name[Len(file_name)] = "a"

\* C3: a context click, a double click or an activation of a download trigger
\* happens only for a candidate whose name ends in ".cwa", and downloaded_count
\* grows only while such a candidate is the current one.
C3_NoInteractionUnlessCwa ==
    /\ [](event \in Interactions => NameEndsInCwa)
    /\ [][(downloaded_count >= 0 /\ downloaded_count' > downloaded_count)
            => NameEndsInCwa]_vars

\* a candidate with a name that does not end in ".cwa" has been passed over
C3_Witness ==
    /\ pc = "for_file"
    /\ i >= 1
    /\ ~Falsy(file_name)
    /\ ~NameEndsInCwa
    /\ event = "none"

\* C4 (as claimed): when an attempt ends and its double click was performed,
\* driver.back() was performed in that attempt.
C4_Original == (pc \in {"ad_retry", "ad_return"} /\ dblclicked) => backed

\* C5 (as claimed): a search is submitted only when the clear_search_context of
\* this search_and_download returned True.
C5_Original == event = "search_submit" => csc_result = "True"

\* C6 (as claimed): once a KeyboardInterrupt was delivered, no later step
\* submits a search or activates a download trigger.
C6_Original ==
    [][interrupted => event' \notin {"search_submit", "trigger_click"}]_vars

\* C7 (as claimed): sanitize_filename(sanitize_filename(x)) = sanitize_filename(x).
C7_Original == san_pc = "twice" => san_out2 = san_out

Replaced(c) == IF c \in Forbidden THEN "_" ELSE c

\* y is x without its leading and trailing whitespace and with every forbidden
\* character replaced by "_"
IsCleaned(x, y) ==
    /\ \E a \in 0..Len(x) :
         /\ a + Len(y) <= Len(x)
         /\ \A j \in 1..a : x[j] \in Whitespace
         /\ \A j \in (a + Len(y) + 1)..Len(x) : x[j] \in Whitespace
         /\ \A j \in 1..Len(y) : y[j] = Replaced(x[a + j])
    /\ \A j \in 1..Len(y) : y[j] \notin Forbidden
    /\ y # <<>> => (y[1] \notin Whitespace /\ y[Len(y)] \notin Whitespace)

EqualsLegacyIgnoringCase(x) ==
    /\ Len(x) = Len(LegacyName)
    /\ \A k \in 1..Len(x) : x[k] = LegacyName[k] \/ x[k] = upper_legacy[k]

SanitizePost(x, y) ==
    IF EqualsLegacyIgnoringCase(x) THEN y = TargetName ELSE IsCleaned(x, y)

\* C8 (as claimed): for every input string the result is the fixed target when
\* the input is the legacy name ignoring case, and otherwise the input with the
\* forbidden characters replaced and the surrounding whitespace removed.
C8_Original == san_pc # "start" => SanitizePost(san_in, san_out)

\* C8 (amended): the same for every non-empty input string; for the empty string
\* the result is None.
C8_Sanitized ==
    san_pc # "start" =>
        IF san_in = <<>> THEN san_out = None ELSE SanitizePost(san_in, san_out)

\* an input with leading whitespace and a forbidden character was sanitized to
\* a non-empty name
C8_Witness ==
    /\ san_pc = "once"
    /\ san_in # <<>>
    /\ Head(san_in) \in Whitespace
    /\ \E k \in 1..Len(san_in) : san_in[k] \in Forbidden
    /\ san_out # <<>>
    /\ san_out # None

IsPrefix(s, t) == Len(s) <= Len(t) /\ SubSeq(t, 1, Len(s)) = s

\* C9: search_and_download is called for the keywords in list order, each once,
\* and when no KeyboardInterrupt was delivered a run that logged in ends with
\* the call made for every keyword.
C9_EveryKeywordInOrder ==
    /\ IsPrefix(invoked, keywords)
    /\ (pc \in {"finally", "exit"} /\ login_result = "True" /\ ~interrupted)
         => invoked = keywords

\* the loop is back at its head, the second keyword to go, after
\* search_and_download returned False for the first
C9_Witness ==
    /\ pc = "for_keyword"
    /\ kw = 1
    /\ Len(keywords) = 2
    /\ sad_result = "False"
    /\ ~interrupted

\* C10 (as claimed): when setup_driver raised or login_to_dropbox returned
\* False, search_and_download is called for no keyword, no search is submitted,
\* no download trigger is activated, and the run ends with cleanup entered.
C10_Original ==
    (setup_result = "raised" \/ login_result = "False") =>
        /\ invoked = <<>>
        /\ event \notin {"search_submit", "trigger_click"}
        /\ pc = "exit" => cleanupCalled


\* C11: verify_download returns True only from a poll that found the file
\* itself, in that poll (no sleep, so before the timeout has run out); a poll
\* that found the file never goes on polling; it returns False only when the
\* timeout has run out (or the name sanitizes to nothing); the partial-download
\* marker never yields True, and the loop ends within one sleep of the timeout
\* whatever the polls saw.
C11_VerifyDownload ==
    /\ [](vd_result = "True" => vd_seen = "present" /\ vd_elapsed < VerifyTimeout)
    /\ [](vd_result = "none" => vd_seen # "present")
    /\ [](vd_result = "False" =>
            Falsy(sanitize_filename(file_name)) \/ vd_elapsed >= VerifyTimeout)
    /\ [](\E d \in sleep_secs : vd_elapsed < VerifyTimeout + d)
    /\ [][vd_result = "none" /\ vd_result' = "True" => vd_elapsed' = vd_elapsed]_vars

\* the file appears two seconds into the poll loop and True is returned at once
C11_Witness ==
    /\ pc = "ad_verify"
    /\ vd_result = "True"
    /\ vd_elapsed = 2
    /\ vd_seen = "present"


\* the turns the running poll loop can still take: each sleep takes at least
\* one second and the loop is left once VerifyTimeout seconds have passed
MaxOf(S) == CHOOSE d \in S : \A e \in S : e <= d

PollBudget == VerifyTimeout + MaxOf(sleep_secs) + 1

PollRank == IF vd_result = "none" THEN PollBudget - vd_elapsed ELSE 0

\* the steps one selector of Strategy A can take: find, click, script click,
\* the poll loop
SelectorSpan == PollBudget + 4

StrategyBSpan == PollBudget + 8

AttemptSpan == StrategyBSpan + NumDownloadSelectors * SelectorSpan + 1

SelectorBase == StrategyBSpan + (NumDownloadSelectors - sel) * SelectorSpan

\* a variant of attempt_download: an upper bound of the steps the call can
\* still take
AdRank ==
    (max_attempts - attempt) * AttemptSpan +
    CASE pc = "ad_retry" -> 0
      [] pc = "ad_close" -> 1
      [] pc \in {"adb_back_ok", "adb_back_fail"} -> 2
      [] pc = "adb_verify" -> 3 + PollRank
      [] pc = "adb_js" -> PollBudget + 4
      [] pc = "adb_click" -> PollBudget + 5
      [] pc = "adb_find" -> PollBudget + 6
      [] pc = "ad_dbl" -> PollBudget + 7
      [] pc = "ad_verify" -> SelectorBase + PollRank
      [] pc = "ad_js" -> SelectorBase + PollBudget + 1
      [] pc = "ad_click" -> SelectorBase + PollBudget + 2
      [] pc = "ad_sel" -> SelectorBase + PollBudget + 3
      [] pc = "ad_context" -> AttemptSpan - 1
      [] OTHER -> 0

\* C18: processing one candidate always terminates: inside attempt_download
\* there are at most max_attempts attempts, at most NumDownloadSelectors
\* Strategy A probes in each, the clock of a poll loop stays within one sleep
\* of VerifyTimeout, and every step of the call lowers the variant AdRank,
\* which is never negative.
C18_AttemptTerminates ==
    /\ [](InAttemptDownload =>
            /\ attempt \in 1..max_attempts
            /\ sel \in 1..NumDownloadSelectors
            /\ vd_elapsed < VerifyTimeout + MaxOf(sleep_secs)
            /\ AdRank >= 0)
    /\ [][InAttemptDownload /\ InAttemptDownload' /\ vars' # vars => AdRank' < AdRank]_vars

\* the poll loop of Strategy B of the last attempt has ended by its timeout
C18_Witness ==
    /\ pc = "adb_verify"
    /\ attempt = max_attempts
    /\ vd_result = "False"
    /\ vd_elapsed >= VerifyTimeout


VerifyPcs == {"ad_verify", "adb_verify"}

\* C20: attempt_download returns True only if, in that call, a verification
\* succeeded; a verification succeeds only from a poll that observed the file;
\* and a verification is started only by the step that activated a download
\* trigger, from inside the call.
C20_TrueOnlyIfVerified ==
    /\ []((pc = "ad_return" /\ ad_result = "True") => verified)
    /\ [][(~verified /\ verified') =>
            (pc \in VerifyPcs /\ vd_result = "True" /\ vd_seen = "present")]_vars
    /\ [][(pc \notin VerifyPcs /\ pc' \in VerifyPcs) =>
            (event' = "trigger_click" /\ InAttemptDownload /\ vd_elapsed' = 0)]_vars

\* Strategy A: a trigger was activated, the poll saw the file, True is returned
C20_Witness ==
    /\ pc = "ad_return"
    /\ ad_result = "True"
    /\ verified
    /\ ~dblclicked


\* C16 (as claimed): within one attempt Strategy A activates at most one
\* download trigger: when the verification that follows the activation has
\* ended, the call either returns True or goes on to the double click of
\* Strategy B; no later selector is probed.
C16_Original ==
    [][(pc = "ad_verify" /\ pc' # "ad_verify") => pc' \in {"ad_return", "ad_dbl"}]_vars


\* C12: get_search_input and the lookup of the result rows probe their
\* selectors in list order, starting with the first and one at a time; a probe
\* that resolves ends the lookup with its match, so that while the lookup goes
\* on nothing has been matched; and the lookup ends with not-found (None, the
\* empty list) only after the last selector.
C12_FirstMatchWins ==
    /\ [][(pc # "gsi" /\ pc' = "gsi") => sel' = 1]_vars
    /\ [][(pc # "rows" /\ pc' = "rows") => sel' = 1]_vars
    /\ [][pc = "gsi" =>
            \/ /\ pc' = "gsi"
               /\ sel < NumSearchSelectors
               /\ sel' = sel + 1
               /\ search_input' = search_input
            \/ /\ pc' \in {"csc_fallback", "sad_type"}
               /\ search_input' \/ sel = NumSearchSelectors]_vars
    /\ [][pc = "rows" =>
            \/ /\ pc' = "rows"
               /\ sel < NumFileSelectors
               /\ sel' = sel + 1
               /\ files_found' = 0
            \/ /\ pc' = "for_file"
               /\ files_found' > 0
            \/ /\ pc' = "after_sad"
               /\ sel = NumFileSelectors
               /\ files_found' = 0]_vars

\* the search input was resolved, and the lookup of the rows has come to its
\* last selector with nothing matched
C12_Witness ==
    /\ pc = "rows"
    /\ sel = NumFileSelectors
    /\ search_input
    /\ files_found = 0


\* C13: no Exception of a driver call leaves attempt_download: whatever the
\* context click, a lookup, a click, the double click, the navigation back or
\* the body click raise, the call goes on inside the method until it returns
\* True or False; the only way out of the method besides its return is a
\* KeyboardInterrupt, which is no Exception.
C13_NoFaultPropagates ==
    /\ [][(InAttemptDownload /\ ~InAttemptDownload') =>
            \/ pc' = "ad_return" /\ ad_result' \in {"True", "False"}
            \/ pc' = "finally" /\ pending' = "KeyboardInterrupt"]_vars
    /\ [](pc = "ad_return" => ad_result \in {"True", "False"})

\* the call has returned False with no double click performed in its last
\* attempt: the context click or the double click of that attempt raised
C13_Witness ==
    /\ pc = "ad_return"
    /\ ad_result = "False"
    /\ ~dblclicked
    /\ ~interrupted


\* C14: a candidate whose name is still empty after the name selectors and the
\* fallback attributes is skipped: the test of the name leads straight back to
\* the loop over the rows, at the same row index, with downloaded_count
\* unchanged and no interaction performed; and no context click, double click
\* or trigger activation ever happens while the current name is empty.
C14_UnnamedSkipped ==
    /\ [](event \in Interactions => ~Falsy(file_name))
    /\ [][(pc = "check_name" /\ Falsy(file_name)) =>
            /\ pc' = "for_file"
            /\ i' = i
            /\ files_found' = files_found
            /\ downloaded_count' = downloaded_count
            /\ event' \notin Interactions]_vars

\* the first of two candidates had no name and was skipped; the loop is about
\* to take the second
C14_Witness ==
    /\ pc = "for_file"
    /\ i = 1
    /\ files_found = 2
    /\ Falsy(file_name)
    /\ downloaded_count = 0


\* C15: in a whole run webdriver.Chrome() returns a driver at most once and
\* login_to_dropbox is called at most once, both before the first keyword is
\* taken; and every search is submitted in that one session, after its login
\* succeeded.
C15_OneSession ==
    /\ [](sessions <= 1 /\ logins <= 1)
    /\ [](event = "search_submit" =>
            (sessions = 1 /\ logins = 1 /\ driver /\ login_result = "True"))
    /\ [][(sessions' # sessions \/ logins' # logins) => (kw = 0 /\ invoked = <<>>)]_vars

\* the search of the second keyword is submitted in the session of the first
C15_Witness ==
    /\ event = "search_submit"
    /\ kw = 2
    /\ sessions = 1
    /\ logins = 1


\* C17 (as claimed): when search_and_download submits a search, the text in the
\* search input is exactly the current keyword.
C17_Original == event = "search_submit" => box = <<keyword>>

\* C19 (as claimed): a context click or a double click on a candidate handle is
\* performed only while the browser shows the search-results view.
C19_Original ==
    [][event' \in {"context_click", "double_click"} => view = "results"]_vars


\* C21: for one keyword only the first RowLimit rows are taken as candidates,
\* however many rows the search returned: the row index never passes
\* min(len(files_found), RowLimit), attempt_download is called at most once
\* per row taken and so at most RowLimit times, downloaded_count is at most the
\* number of calls; and downloaded_count is bound to 0 when the loop over the
\* rows is entered and afterwards only grows by one, on the return of a call.
C21_FirstFiveRows ==
    /\ [](/\ i <= Min(files_found, RowLimit)
          /\ ad_calls <= i
          /\ ad_calls <= RowLimit
          /\ downloaded_count <= ad_calls
          /\ downloaded_count <= RowLimit)
    /\ [][(downloaded_count = -1 /\ downloaded_count' # -1) =>
            (downloaded_count' = 0 /\ ad_calls' = 0 /\ i' = 0)]_vars
    /\ [][(downloaded_count >= 0 /\ downloaded_count' > downloaded_count) =>
            (downloaded_count' = downloaded_count + 1 /\ pc = "ad_return")]_vars
    /\ [][ad_calls' > ad_calls => (ad_calls' = ad_calls + 1 /\ pc = "check_name")]_vars
    /\ [][(pc = "ad_return" /\ pc' = "check_name") => FALSE]_vars
    /\ [][i' > i => (i' = i + 1 /\ pc = "for_file")]_vars

\* the search returned seven rows; five were taken, each was handed to
\* attempt_download and downloaded, and the loop has ended
C21_Witness ==
    /\ pc = "after_sad"
    /\ files_found = 7
    /\ i = RowLimit
    /\ ad_calls = RowLimit
    /\ downloaded_count = RowLimit

====
